---- MODULE Spec2Model ----
(***************************************************************************)
(* Model of the test-run telemetry aggregator of some-bdd                  *)
(* (src/src/lib.rs, module `state`): the Feature -> Scenario -> Step tree  *)
(* kept by EventHandlerState, the event sink RunEventHandler::handle_event *)
(* that mutates it under one Mutex, and the roll-up FeatureStats::         *)
(* get_result.                                                             *)
(***************************************************************************)
EXTENDS Integers, Sequences, FiniteSets, TLC

\* ------------------------------------------------------------------------
\* Bounds of the model
\* ------------------------------------------------------------------------

\* Starting events delivered in one run of the sequential specification.
MaxStarted == 4

\* Concurrent producers and scenarios per producer (SpecProducers).
NProducers == 2
MScenarios == 2

\* handle_event calls of each producer in SpecConc.
MaxCalls == 2

\* longest Step list of a Report read back from the result file
MaxSteps == 2

\* ------------------------------------------------------------------------
\* Names drawn by the events
\* ------------------------------------------------------------------------

FeatureNames == {"f1", "f2"}
ScenarioNames == {"s1", "s2"}
StepKeywords == {"Given", "When"}
StepNames == {"x"}
NoName == "-"

\* ------------------------------------------------------------------------
\* Option<T> and StatResult
\* ------------------------------------------------------------------------

None == <<>>
Some(v) == <<v>>
unwrap_or(o, d) == IF o = None THEN d ELSE o[1]

Passed == "StatResult::Passed"
Failed == "StatResult::Failed"
Skipped == "StatResult::Skipped"
StatResult == {Passed, Failed, Skipped}

StatResultDisplay(r) ==
    CASE r = Failed -> "Failed"
      [] r = Passed -> "Passed"
      [] r = Skipped -> "Skipped"

\* ------------------------------------------------------------------------
\* Entities
\* ------------------------------------------------------------------------

FeatureStatsNew(name) == [name |-> name, scenarios |-> <<>>]

\* Mutant of ScenarioStats::new: a new Scenario starts as Skipped.
ScenarioStatsNewSkipped(name) == [name |-> name, steps |-> <<>>, result |-> Some(Skipped)]

ScenarioStatsNew(name) == [name |-> name, steps |-> <<>>, result |-> None]

StepStatsNew(name, keyword) == [name |-> name, keyword |-> keyword, result |-> None]

\* Mutant of find: the last index that satisfies the predicate.
find_last(S) == IF S = {} THEN 0 ELSE CHOOSE i \in S : \A j \in S : i >= j

\* iter_mut().find(..): the first index that satisfies the predicate, 0 for None
find(S) == IF S = {} THEN 0 ELSE CHOOSE i \in S : \A j \in S : i <= j

get_feature(fs, feature_name) ==
    find({i \in DOMAIN fs : fs[i].name = feature_name})

get_scenario(f, scenario_name) ==
    find({i \in DOMAIN f.scenarios : f.scenarios[i].name = scenario_name})

get_step(sc, step_keyword, step_name) ==
    find({i \in DOMAIN sc.steps :
            sc.steps[i].name = step_name /\ sc.steps[i].keyword = step_keyword})

\* ------------------------------------------------------------------------
\* Roll-up and rendering of one entity
\* ------------------------------------------------------------------------

\* Mutants of get_result: any instead of all; Skipped tested before Failed;
\* no case for the empty list; an absent outcome read as Passed.
get_result_any_passed(f) ==
    IF Len(f.scenarios) = 0 THEN None
    ELSE LET all_stats == [i \in DOMAIN f.scenarios |->
                              unwrap_or(f.scenarios[i].result, Skipped)]
         IN  IF \E i \in DOMAIN all_stats : all_stats[i] = Passed
             THEN Some(Passed)
             ELSE IF \E i \in DOMAIN all_stats : all_stats[i] = Failed
             THEN Some(Failed)
             ELSE Some(Skipped)

get_result_skipped_first(f) ==
    IF Len(f.scenarios) = 0 THEN None
    ELSE LET all_stats == [i \in DOMAIN f.scenarios |->
                              unwrap_or(f.scenarios[i].result, Skipped)]
         IN  IF \A i \in DOMAIN all_stats : all_stats[i] = Passed
             THEN Some(Passed)
             ELSE IF \E i \in DOMAIN all_stats : all_stats[i] = Skipped
             THEN Some(Skipped)
             ELSE Some(Failed)

get_result_no_empty_case(f) ==
    LET all_stats == [i \in DOMAIN f.scenarios |->
                         unwrap_or(f.scenarios[i].result, Skipped)]
    IN  IF \A i \in DOMAIN all_stats : all_stats[i] = Passed
        THEN Some(Passed)
        ELSE IF \E i \in DOMAIN all_stats : all_stats[i] = Failed
        THEN Some(Failed)
        ELSE Some(Skipped)

get_result_absent_passed(f) ==
    IF Len(f.scenarios) = 0 THEN None
    ELSE LET all_stats == [i \in DOMAIN f.scenarios |->
                              unwrap_or(f.scenarios[i].result, Passed)]
         IN  IF \A i \in DOMAIN all_stats : all_stats[i] = Passed
             THEN Some(Passed)
             ELSE IF \E i \in DOMAIN all_stats : all_stats[i] = Failed
             THEN Some(Failed)
             ELSE Some(Skipped)

get_result(f) ==
    IF Len(f.scenarios) = 0 THEN None
    ELSE LET all_stats == [i \in DOMAIN f.scenarios |->
                              unwrap_or(f.scenarios[i].result, Skipped)]
         IN  IF \A i \in DOMAIN all_stats : all_stats[i] = Passed
             THEN Some(Passed)
             ELSE IF \E i \in DOMAIN all_stats : all_stats[i] = Failed
             THEN Some(Failed)
             ELSE Some(Skipped)

StepStatsDisplay(st) ==
    <<"Step: '", st.keyword, " ", st.name, "'; Status: '",
      StatResultDisplay(unwrap_or(st.result, Skipped)), "'">>

ScenarioStatsDisplay(sc) ==
    <<"Scenario: '", sc.name, "'; Status: '",
      StatResultDisplay(unwrap_or(sc.result, Skipped)), "'">>

FeatureStatsDisplay(f) ==
    <<"Feature: '", f.name, "'; Status: '",
      StatResultDisplay(unwrap_or(get_result(f), Skipped)), "'">>

\* ------------------------------------------------------------------------
\* Operations of EventHandlerState.  Each returns the new feature list, or
\* the panic raised by Option::expect with its message.
\* ------------------------------------------------------------------------

Ok(fs) == [panicked |-> FALSE, features |-> fs, msg |-> None]
Panic(fs, m) == [panicked |-> TRUE, features |-> fs, msg |-> Some(m)]

\* Mutant of add_feature: the Feature is inserted at the front of the list.
add_feature_front(fs, feature_name) ==
    Ok(<<FeatureStatsNew(feature_name)>> \o fs)

add_feature(fs, feature_name) ==
    Ok(Append(fs, FeatureStatsNew(feature_name)))

\* Mutants of add_scenario: the missing Feature is created instead of
\* reported; the Scenario goes to the first Feature instead of the one found.
add_scenario_or_create(fs, feature_name, scenario_name) ==
    LET i == get_feature(fs, feature_name) IN
    IF i = 0
    THEN Ok(Append(fs, [name |-> feature_name,
                        scenarios |-> <<ScenarioStatsNew(scenario_name)>>]))
    ELSE Ok([fs EXCEPT ![i].scenarios = Append(@, ScenarioStatsNew(scenario_name))])

add_scenario_first(fs, feature_name, scenario_name) ==
    LET i == get_feature(fs, feature_name) IN
    IF i = 0
    THEN Panic(fs, <<"Feature '", feature_name, "' not found while adding scenario">>)
    ELSE Ok([fs EXCEPT ![1].scenarios = Append(@, ScenarioStatsNew(scenario_name))])

add_scenario(fs, feature_name, scenario_name) ==
    LET i == get_feature(fs, feature_name) IN
    IF i = 0
    THEN Panic(fs, <<"Feature '", feature_name, "' not found while adding scenario">>)
    ELSE Ok([fs EXCEPT ![i].scenarios = Append(@, ScenarioStatsNew(scenario_name))])

\* Mutant of add_step: the Step is inserted at the front of the list.
add_step_front(fs, feature_name, scenario_name, step_name, step_keyword) ==
    LET i == get_feature(fs, feature_name) IN
    IF i = 0
    THEN Panic(fs, <<"Feature '", feature_name, "' not found while adding step">>)
    ELSE LET j == get_scenario(fs[i], scenario_name) IN
         IF j = 0
         THEN Panic(fs, <<"Scenario '", scenario_name, "' not found  while adding step">>)
         ELSE Ok([fs EXCEPT ![i].scenarios[j].steps =
                                <<StepStatsNew(step_name, step_keyword)>> \o @])

add_step(fs, feature_name, scenario_name, step_name, step_keyword) ==
    LET i == get_feature(fs, feature_name) IN
    IF i = 0
    THEN Panic(fs, <<"Feature '", feature_name, "' not found while adding step">>)
    ELSE LET j == get_scenario(fs[i], scenario_name) IN
         IF j = 0
         THEN Panic(fs, <<"Scenario '", scenario_name, "' not found  while adding step">>)
         ELSE Ok([fs EXCEPT ![i].scenarios[j].steps =
                                Append(@, StepStatsNew(step_name, step_keyword))])

\* Mutant of set_scenario_result: an outcome already stored is kept.
set_scenario_result_once(fs, feature_name, scenario_name, result) ==
    LET i == get_feature(fs, feature_name) IN
    IF i = 0
    THEN Panic(fs, <<"Feature '", feature_name,
                     "' not found while setting result to scenario">>)
    ELSE LET j == get_scenario(fs[i], scenario_name) IN
         IF j = 0
         THEN Panic(fs, <<"Scenario '", scenario_name,
                          "' not found while setting result to scenario">>)
         ELSE IF fs[i].scenarios[j].result # None
         THEN Ok(fs)
         ELSE Ok([fs EXCEPT ![i].scenarios[j].result = Some(result)])

set_scenario_result(fs, feature_name, scenario_name, result) ==
    LET i == get_feature(fs, feature_name) IN
    IF i = 0
    THEN Panic(fs, <<"Feature '", feature_name,
                     "' not found while setting result to scenario">>)
    ELSE LET j == get_scenario(fs[i], scenario_name) IN
         IF j = 0
         THEN Panic(fs, <<"Scenario '", scenario_name,
                          "' not found while setting result to scenario">>)
         ELSE Ok([fs EXCEPT ![i].scenarios[j].result = Some(result)])

\* Mutant of set_step_result: a missing Step is created with the outcome.
set_step_result_or_create(fs, feature_name, scenario_name, step_name, step_keyword, result) ==
    LET i == get_feature(fs, feature_name) IN
    IF i = 0
    THEN Panic(fs, <<"Feature '", feature_name,
                     "' not found while setting result to step">>)
    ELSE LET j == get_scenario(fs[i], scenario_name) IN
         IF j = 0
         THEN Panic(fs, <<"Scenario '", scenario_name,
                          "' not found while setting result to step">>)
         ELSE LET k == get_step(fs[i].scenarios[j], step_keyword, step_name) IN
              IF k = 0
              THEN Ok([fs EXCEPT ![i].scenarios[j].steps =
                          Append(@, [name |-> step_name, keyword |-> step_keyword,
                                     result |-> Some(result)])])
              ELSE Ok([fs EXCEPT ![i].scenarios[j].steps[k].result = Some(result)])

\* Mutant of set_step_result: a Failed Step also fails its Scenario.
set_step_result_propagate(fs, feature_name, scenario_name, step_name, step_keyword, result) ==
    LET i == get_feature(fs, feature_name) IN
    IF i = 0
    THEN Panic(fs, <<"Feature '", feature_name,
                     "' not found while setting result to step">>)
    ELSE LET j == get_scenario(fs[i], scenario_name) IN
         IF j = 0
         THEN Panic(fs, <<"Scenario '", scenario_name,
                          "' not found while setting result to step">>)
         ELSE LET k == get_step(fs[i].scenarios[j], step_keyword, step_name) IN
              IF k = 0
              THEN Panic(fs, <<"Step '", step_keyword, " ", step_name,
                               "' not found while setting result to step">>)
              ELSE Ok([fs EXCEPT ![i].scenarios[j].steps[k].result = Some(result),
                                 ![i].scenarios[j].result =
                                     IF result = Failed THEN Some(Failed) ELSE @])

set_step_result(fs, feature_name, scenario_name, step_name, step_keyword, result) ==
    LET i == get_feature(fs, feature_name) IN
    IF i = 0
    THEN Panic(fs, <<"Feature '", feature_name,
                     "' not found while setting result to step">>)
    ELSE LET j == get_scenario(fs[i], scenario_name) IN
         IF j = 0
         THEN Panic(fs, <<"Scenario '", scenario_name,
                          "' not found while setting result to step">>)
         ELSE LET k == get_step(fs[i].scenarios[j], step_keyword, step_name) IN
              IF k = 0
              THEN Panic(fs, <<"Step '", step_keyword, " ", step_name,
                               "' not found while setting result to step">>)
              ELSE Ok([fs EXCEPT ![i].scenarios[j].steps[k].result = Some(result)])

\* ------------------------------------------------------------------------
\* Events (CucumberEvent::Feature(feature, FeatureEvent...)) by shape
\* ------------------------------------------------------------------------

FeatureKinds == {"FeatureStarting", "FeatureFinished"}
ScenarioKinds == {"ScenarioStarting", "ScenarioPassed", "ScenarioFailedPanic",
                  "ScenarioFailedTimedOut", "ScenarioSkipped"}
StepKinds == {"StepStarting", "StepPassed", "StepFailedPanic",
              "StepFailedTimedOut", "StepSkipped"}

Event(kind, f, s, k, n) ==
    [kind |-> kind, feature |-> f, scenario |-> s, keyword |-> k, step |-> n]

FeatureStarting(f) == Event("FeatureStarting", f, NoName, NoName, NoName)
ScenarioStarting(f, s) == Event("ScenarioStarting", f, s, NoName, NoName)
StepStarting(f, s, k, n) == Event("StepStarting", f, s, k, n)

Events ==
    {Event(kind, f, NoName, NoName, NoName) : kind \in FeatureKinds, f \in FeatureNames}
    \cup {Event(kind, f, s, NoName, NoName) :
            kind \in ScenarioKinds, f \in FeatureNames, s \in ScenarioNames}
    \cup {Event(kind, f, s, k, n) :
            kind \in StepKinds, f \in FeatureNames, s \in ScenarioNames,
            k \in StepKeywords, n \in StepNames}

StartingKinds == {"FeatureStarting", "ScenarioStarting", "StepStarting"}

\* Mutants of the match: an arm for StepEvent::Skipped is added; the arm of
\* StepFailureKind::TimedOut stores Skipped.
dispatch_step_skipped(fs, event) ==
    CASE event.kind = "ScenarioFailedPanic" ->
            set_scenario_result(fs, event.feature, event.scenario, Failed)
      [] event.kind = "ScenarioPassed" ->
            set_scenario_result(fs, event.feature, event.scenario, Passed)
      [] event.kind = "ScenarioSkipped" ->
            set_scenario_result(fs, event.feature, event.scenario, Skipped)
      [] event.kind = "StepFailedPanic" ->
            set_step_result(fs, event.feature, event.scenario, event.step,
                            event.keyword, Failed)
      [] event.kind = "StepFailedTimedOut" ->
            set_step_result(fs, event.feature, event.scenario, event.step,
                            event.keyword, Failed)
      [] event.kind = "StepPassed" ->
            set_step_result(fs, event.feature, event.scenario, event.step,
                            event.keyword, Passed)
      [] event.kind = "StepSkipped" ->
            set_step_result(fs, event.feature, event.scenario, event.step,
                            event.keyword, Skipped)
      [] event.kind = "StepStarting" ->
            add_step(fs, event.feature, event.scenario, event.step, event.keyword)
      [] event.kind = "FeatureStarting" ->
            add_feature(fs, event.feature)
      [] event.kind = "ScenarioStarting" ->
            add_scenario(fs, event.feature, event.scenario)
      [] OTHER -> Ok(fs)

dispatch_timeout_skipped(fs, event) ==
    CASE event.kind = "ScenarioFailedPanic" ->
            set_scenario_result(fs, event.feature, event.scenario, Failed)
      [] event.kind = "ScenarioPassed" ->
            set_scenario_result(fs, event.feature, event.scenario, Passed)
      [] event.kind = "ScenarioSkipped" ->
            set_scenario_result(fs, event.feature, event.scenario, Skipped)
      [] event.kind = "StepFailedPanic" ->
            set_step_result(fs, event.feature, event.scenario, event.step,
                            event.keyword, Failed)
      [] event.kind = "StepFailedTimedOut" ->
            set_step_result(fs, event.feature, event.scenario, event.step,
                            event.keyword, Skipped)
      [] event.kind = "StepPassed" ->
            set_step_result(fs, event.feature, event.scenario, event.step,
                            event.keyword, Passed)
      [] event.kind = "StepStarting" ->
            add_step(fs, event.feature, event.scenario, event.step, event.keyword)
      [] event.kind = "FeatureStarting" ->
            add_feature(fs, event.feature)
      [] event.kind = "ScenarioStarting" ->
            add_scenario(fs, event.feature, event.scenario)
      [] OTHER -> Ok(fs)

\* The match of handle_event, run while the guard is held.
dispatch(fs, event) ==
    CASE event.kind = "ScenarioFailedPanic" ->
            set_scenario_result(fs, event.feature, event.scenario, Failed)
      [] event.kind = "ScenarioPassed" ->
            set_scenario_result(fs, event.feature, event.scenario, Passed)
      [] event.kind = "ScenarioSkipped" ->
            set_scenario_result(fs, event.feature, event.scenario, Skipped)
      [] event.kind = "StepFailedPanic" ->
            set_step_result(fs, event.feature, event.scenario, event.step,
                            event.keyword, Failed)
      [] event.kind = "StepFailedTimedOut" ->
            set_step_result(fs, event.feature, event.scenario, event.step,
                            event.keyword, Failed)
      [] event.kind = "StepPassed" ->
            set_step_result(fs, event.feature, event.scenario, event.step,
                            event.keyword, Passed)
      [] event.kind = "StepStarting" ->
            add_step(fs, event.feature, event.scenario, event.step, event.keyword)
      [] event.kind = "FeatureStarting" ->
            add_feature(fs, event.feature)
      [] event.kind = "ScenarioStarting" ->
            add_scenario(fs, event.feature, event.scenario)
      [] OTHER -> Ok(fs)

\* self.state.lock().unwrap() on a poisoned Mutex
PoisonError == <<"called Result::unwrap() on an Err value: PoisonError">>

\* ------------------------------------------------------------------------
\* State
\* ------------------------------------------------------------------------

VARIABLES
    features,   \* EventHandlerState.features
    poisoned,   \* the Mutex's poison flag
    panic,      \* panic message of the latest handle_event call, None if it returned
    holder,     \* producer that holds the MutexGuard, NoHolder if the Mutex is free
    pc,         \* position of each producer inside handle_event
    cur,        \* event of each producer's handle_event call in progress
    script,     \* events each producer has still to deliver
    acquired,   \* history: events in the order their calls acquired the Mutex
    started,    \* history: Starting events in the order their dispatch was reached
    ordered,    \* history: every delivered event respected the ordering contract
    result,     \* main: the RunResult returned by run().await, None before
    report,     \* main: the RunStats built by RunStats::new, None before
    stdout,     \* main: the lines printed by print_test_results
    disk,       \* main: ./out, the result file in it, and what create_dir and write returned
    exitCode,   \* main: the code given to std::process::exit, None before
    decoded,    \* the RunStats read back from the result file, None before
    mainPc      \* main: position after run().await

mainVars == <<result, report, stdout, disk, exitCode, decoded, mainPc>>

vars == <<features, poisoned, panic, holder, pc, cur, script, acquired, started, ordered,
          result, report, stdout, disk, exitCode, decoded, mainPc>>

\* main before run().await has returned: nothing compiled, printed or written
MainInit ==
    /\ result = None
    /\ report = None
    /\ stdout = <<>>
    /\ disk = [dir |-> FALSE, file |-> None, create_dir |-> "-", write |-> "-"]
    /\ exitCode = None
    /\ decoded = None
    /\ mainPc = "run"

Producers == 1 .. NProducers
NoHolder == 0
NoEvent == Event("None", NoName, NoName, NoName, NoName)

\* ------------------------------------------------------------------------
\* The ordering contract of the event source, judged on the history alone
\* ------------------------------------------------------------------------

WasStarted(log, e) == \E i \in DOMAIN log : log[i] = e

RespectsContract(log, e) ==
    CASE e.kind = "FeatureStarting" ->
            ~WasStarted(log, e)
      [] e.kind = "ScenarioStarting" ->
            /\ WasStarted(log, FeatureStarting(e.feature))
            /\ ~WasStarted(log, e)
      [] e.kind = "StepStarting" ->
            /\ WasStarted(log, ScenarioStarting(e.feature, e.scenario))
            /\ ~WasStarted(log, e)
      [] e.kind \in {"ScenarioPassed", "ScenarioFailedPanic", "ScenarioSkipped"} ->
            WasStarted(log, ScenarioStarting(e.feature, e.scenario))
      [] e.kind \in {"StepPassed", "StepFailedPanic", "StepFailedTimedOut"} ->
            WasStarted(log, StepStarting(e.feature, e.scenario, e.keyword, e.step))
      [] OTHER -> TRUE

\* ------------------------------------------------------------------------
\* Sequential specification: one caller, one handle_event call per step
\* ------------------------------------------------------------------------

Init ==
    /\ features = <<>>
    /\ poisoned = FALSE
    /\ panic = None
    /\ holder = NoHolder
    /\ pc = [p \in Producers |-> "idle"]
    /\ cur = [p \in Producers |-> NoEvent]
    /\ script = [p \in Producers |-> <<>>]
    /\ acquired = <<>>
    /\ started = <<>>
    /\ ordered = TRUE
    /\ MainInit

\* Mutant of handle_event: the guard is taken out of the PoisonError and the
\* event dispatched.
handle_event_into_inner(fs, poison, event) ==
    LET r == dispatch(fs, event) IN
    [features |-> r.features, poisoned |-> poison \/ r.panicked, msg |-> r.msg]

\* handle_event as one uninterrupted call: lock, match, drop of the guard
handle_event(fs, poison, event) ==
    IF poison
    THEN [features |-> fs, poisoned |-> TRUE, msg |-> Some(PoisonError)]
    ELSE LET r == dispatch(fs, event) IN
         [features |-> r.features, poisoned |-> r.panicked, msg |-> r.msg]

HandleEvent(event) ==
    /\ (~poisoned /\ event.kind \in StartingKinds) => Len(started) < MaxStarted
    /\ LET r == handle_event(features, poisoned, event) IN
         /\ features' = r.features
         /\ poisoned' = r.poisoned
         /\ panic' = r.msg
    /\ started' = IF ~poisoned /\ event.kind \in StartingKinds
                  THEN Append(started, event) ELSE started
    /\ ordered' = (ordered /\ RespectsContract(started, event))
    /\ UNCHANGED <<holder, pc, cur, script, acquired>>
    /\ UNCHANGED mainVars

Next == \E event \in Events : HandleEvent(event)

Spec == Init /\ [][Next]_vars

\* ------------------------------------------------------------------------
\* Concurrent specification: NProducers threads share one RunEventHandler
\* (a clone of the Arc).  Each delivers FeatureStarting for its own Feature
\* and then MScenarios ScenarioStarting events for it.  A handle_event call
\* is the steps Lock (self.state.lock().unwrap()), Match (the match, run
\* while the guard is held) and Drop (the guard goes out of scope).
\* ------------------------------------------------------------------------

ProducerFeature(p) == "f" \o ToString(p)
ProducerScenario(p, j) == "s" \o ToString(p) \o "_" \o ToString(j)

ProducerScript(p) ==
    <<FeatureStarting(ProducerFeature(p))>>
    \o [j \in 1 .. MScenarios |-> ScenarioStarting(ProducerFeature(p), ProducerScenario(p, j))]

InitProducers ==
    /\ features = <<>>
    /\ poisoned = FALSE
    /\ panic = None
    /\ holder = NoHolder
    /\ pc = [p \in Producers |-> "idle"]
    /\ cur = [p \in Producers |-> NoEvent]
    /\ script = [p \in Producers |-> ProducerScript(p)]
    /\ acquired = <<>>
    /\ started = <<>>
    /\ ordered = TRUE
    /\ MainInit

\* Mutant of MutexFree: lock() returns although a guard is alive.
MutexFreeAlways(h) == TRUE

\* Mutex::lock returns only while no other guard is alive
MutexFree(h) == h = NoHolder

\* the producer enters handle_event with its next event
Call(p) ==
    /\ pc[p] = "idle"
    /\ script[p] # <<>>
    /\ cur' = [cur EXCEPT ![p] = Head(script[p])]
    /\ script' = [script EXCEPT ![p] = Tail(script[p])]
    /\ pc' = [pc EXCEPT ![p] = "lock"]
    /\ UNCHANGED <<features, poisoned, panic, holder, acquired, started, ordered>>
    /\ UNCHANGED mainVars

\* let mut state = self.state.lock().unwrap();
Lock(p) ==
    /\ pc[p] = "lock"
    /\ MutexFree(holder)
    /\ IF poisoned
       THEN /\ panic' = Some(PoisonError)
            /\ pc' = [pc EXCEPT ![p] = "idle"]
            /\ cur' = [cur EXCEPT ![p] = NoEvent]
            /\ UNCHANGED <<holder, acquired>>
       ELSE /\ holder' = p
            /\ acquired' = Append(acquired, cur[p])
            /\ pc' = [pc EXCEPT ![p] = "match"]
            /\ UNCHANGED <<panic, cur>>
    /\ UNCHANGED <<features, poisoned, script, started, ordered>>
    /\ UNCHANGED mainVars

\* match event { ... }; a panic unwinds, which poisons the Mutex and drops the guard
Match(p) ==
    /\ pc[p] = "match"
    /\ LET r == dispatch(features, cur[p]) IN
         /\ features' = r.features
         /\ poisoned' = r.panicked
         /\ panic' = r.msg
         /\ holder' = IF r.panicked THEN NoHolder ELSE holder
         /\ pc' = [pc EXCEPT ![p] = IF r.panicked THEN "idle" ELSE "drop"]
         /\ cur' = [cur EXCEPT ![p] = IF r.panicked THEN NoEvent ELSE cur[p]]
    /\ started' = IF cur[p].kind \in StartingKinds
                  THEN Append(started, cur[p]) ELSE started
    /\ ordered' = (ordered /\ RespectsContract(started, cur[p]))
    /\ UNCHANGED <<script, acquired>>
    /\ UNCHANGED mainVars

\* Mutant of Drop: handle_event returns and the Mutex stays locked.
DropLeak(p) ==
    /\ pc[p] = "drop"
    /\ pc' = [pc EXCEPT ![p] = "idle"]
    /\ cur' = [cur EXCEPT ![p] = NoEvent]
    /\ UNCHANGED <<features, poisoned, panic, holder, script, acquired, started, ordered>>
    /\ UNCHANGED mainVars

\* end of handle_event: the MutexGuard is dropped
Drop(p) ==
    /\ pc[p] = "drop"
    /\ holder' = NoHolder
    /\ pc' = [pc EXCEPT ![p] = "idle"]
    /\ cur' = [cur EXCEPT ![p] = NoEvent]
    /\ UNCHANGED <<features, poisoned, panic, script, acquired, started, ordered>>
    /\ UNCHANGED mainVars

NextProducers ==
    \E p \in Producers : Call(p) \/ Lock(p) \/ Match(p) \/ Drop(p)

SpecProducers == InitProducers /\ [][NextProducers]_vars

\* The operating system schedules every runnable thread, and the producers
\* deliver finitely many events, so a thread blocked in lock() is not
\* overtaken for ever.
FairSpecProducers ==
    SpecProducers /\ \A p \in Producers : WF_vars(Call(p) \/ Lock(p) \/ Match(p) \/ Drop(p))

\* ------------------------------------------------------------------------
\* Concurrent specification with arbitrary deliveries: every producer
\* delivers MaxCalls events about one shared Feature and Scenario, in any
\* order, so that lookups, pushes, outcome writes and panics of different
\* threads meet on the same entities.
\* ------------------------------------------------------------------------

ConcEvents ==
    {FeatureStarting("f1"), ScenarioStarting("f1", "s1"),
     Event("ScenarioPassed", "f1", "s1", NoName, NoName),
     Event("ScenarioFailedPanic", "f1", "s1", NoName, NoName)}

InitConc ==
    /\ features = <<>>
    /\ poisoned = FALSE
    /\ panic = None
    /\ holder = NoHolder
    /\ pc = [p \in Producers |-> "idle"]
    /\ cur = [p \in Producers |-> NoEvent]
    /\ script \in [Producers -> [1 .. MaxCalls -> ConcEvents]]
    /\ acquired = <<>>
    /\ started = <<>>
    /\ ordered = TRUE
    /\ MainInit

SpecConc == InitConc /\ [][NextProducers]_vars

\* ------------------------------------------------------------------------
\* main after the run (tests/cucumber.rs): the Report is compiled from the
\* engine's RunResult and a copy of the tree, printed, written to ./out and
\* the process exits.  The handler stays usable meanwhile.
\* ------------------------------------------------------------------------

\* RunResult of the engine: the counters RunStats::new reads, and failed()
RunResult(ft, st, ss, sp, sf, failed) ==
    [features |-> [total |-> ft],
     scenarios |-> [total |-> st, skipped |-> ss, passed |-> sp, failed |-> sf],
     failed |-> failed]

RunResults ==
    {RunResult(0, 0, 0, 0, 0, FALSE),
     RunResult(1, 1, 0, 1, 0, FALSE),
     RunResult(2, 3, 1, 1, 1, TRUE)}

\* Mutant of VecClone: the Report keeps the shared state instead of a copy.
VecShare(v) == [shared |-> TRUE, items |-> v]

\* Vec<FeatureStats>::clone: an owned deep copy, unlike the Arc the handler
\* clones share
VecClone(v) == [shared |-> FALSE, items |-> v]

\* Mutant of RunStats::new: the totals are counted from the tree.
RunStatsNewCounted(res, state_features) ==
    [total_featuress |-> Len(state_features),
     total_scenarios |-> res.scenarios.total,
     skipped_scenarios |-> res.scenarios.skipped,
     passed_scenarios |-> res.scenarios.passed,
     failed_scenarios |-> res.scenarios.failed,
     features |-> VecClone(state_features)]

RunStatsNew(res, state_features) ==
    [total_featuress |-> res.features.total,
     total_scenarios |-> res.scenarios.total,
     skipped_scenarios |-> res.scenarios.skipped,
     passed_scenarios |-> res.scenarios.passed,
     failed_scenarios |-> res.scenarios.failed,
     features |-> VecClone(state_features)]

\* the Feature list a reader of the Report sees now
ReportFeatures ==
    IF report[1].features.shared THEN features ELSE report[1].features.items

\* the Report as a reader sees it now
ReportValue == [report[1] EXCEPT !.features = ReportFeatures]

RECURSIVE Concat(_)
\* the lines of nested for_each calls, one after another
Concat(blocks) ==
    IF blocks = <<>> THEN <<>> ELSE Head(blocks) \o Concat(Tail(blocks))

Rule == <<"------------------------------------------------">>

ScenarioBlock(sc) ==
    << <<"\t">> \o ScenarioStatsDisplay(sc) >>
    \o [k \in DOMAIN sc.steps |-> <<"\t\t">> \o StepStatsDisplay(sc.steps[k])]
    \o << <<"">> >>

FeatureBlock(f) ==
    << FeatureStatsDisplay(f), <<"">> >>
    \o Concat([j \in DOMAIN f.scenarios |-> ScenarioBlock(f.scenarios[j])])

Overview(stats) ==
    << <<"">>,
       <<"Result overview!">>,
       Rule,
       <<"Total features: ", ToString(stats.total_featuress)>>,
       <<"Total scenarions: ", ToString(stats.total_scenarios)>>,
       <<"Skipped scenarios: ", ToString(stats.skipped_scenarios)>>,
       <<"Passed scenarios: ", ToString(stats.passed_scenarios)>>,
       <<"Failed scenarios: ", ToString(stats.failed_scenarios)>>,
       Rule >>

\* Mutant of print_test_results: the Features are printed by name.
print_test_results_by_name(stats) ==
    IF stats.features = <<>>
    THEN Overview(stats)
    ELSE LET sorted == SelectSeq(stats.features, LAMBDA f : f.name = "f1")
                       \o SelectSeq(stats.features, LAMBDA f : f.name # "f1")
         IN  Overview(stats)
             \o << <<"">>, <<"Feature overview:">>, Rule >>
             \o Concat([i \in DOMAIN sorted |-> FeatureBlock(sorted[i])])
             \o << <<"">> >>

\* the lines print_test_results writes to standard output
print_test_results(stats) ==
    IF stats.features = <<>>
    THEN Overview(stats)
    ELSE Overview(stats)
         \o << <<"">>, <<"Feature overview:">>, Rule >>
         \o Concat([i \in DOMAIN stats.features |-> FeatureBlock(stats.features[i])])
         \o << <<"">> >>

\* ------------------------------------------------------------------------
\* serde_json: the document derive(Serialize) writes for a RunStats and the
\* value derive(Deserialize) reads back
\* ------------------------------------------------------------------------

JNull == [t |-> "null", v |-> <<>>]
JString(x) == [t |-> "string", v |-> x]
JNumber(n) == [t |-> "number", v |-> n]
JArray(xs) == [t |-> "array", v |-> xs]
JObject(fields) == [t |-> "object", v |-> fields]

VariantName(r) ==
    CASE r = Passed -> "Passed"
      [] r = Failed -> "Failed"
      [] r = Skipped -> "Skipped"

VariantOf(x) ==
    CASE x = "Passed" -> Passed
      [] x = "Failed" -> Failed
      [] x = "Skipped" -> Skipped

\* Mutant of ser_result: an absent outcome is written as Skipped.
ser_result_skipped(o) ==
    IF o = None THEN JString("Skipped") ELSE JString(VariantName(o[1]))

ser_result(o) == IF o = None THEN JNull ELSE JString(VariantName(o[1]))

ser_step(st) ==
    JObject([name |-> JString(st.name), keyword |-> JString(st.keyword),
             result |-> ser_result(st.result)])

ser_scenario(sc) ==
    JObject([name |-> JString(sc.name),
             steps |-> JArray([k \in DOMAIN sc.steps |-> ser_step(sc.steps[k])]),
             result |-> ser_result(sc.result)])

ser_feature(f) ==
    JObject([name |-> JString(f.name),
             scenarios |-> JArray([j \in DOMAIN f.scenarios |-> ser_scenario(f.scenarios[j])])])

\* serde_json::to_string(&stats)
to_string(stats) ==
    JObject([total_featuress |-> JNumber(stats.total_featuress),
             total_scenarios |-> JNumber(stats.total_scenarios),
             skipped_scenarios |-> JNumber(stats.skipped_scenarios),
             passed_scenarios |-> JNumber(stats.passed_scenarios),
             failed_scenarios |-> JNumber(stats.failed_scenarios),
             features |-> JArray([i \in DOMAIN stats.features |-> ser_feature(stats.features[i])])])

de_result(j) == IF j.t = "null" THEN None ELSE Some(VariantOf(j.v))

de_step(j) ==
    [name |-> j.v.name.v, keyword |-> j.v.keyword.v, result |-> de_result(j.v.result)]

de_scenario(j) ==
    [name |-> j.v.name.v,
     steps |-> [k \in DOMAIN j.v.steps.v |-> de_step(j.v.steps.v[k])],
     result |-> de_result(j.v.result)]

de_feature(j) ==
    [name |-> j.v.name.v,
     scenarios |-> [i \in DOMAIN j.v.scenarios.v |-> de_scenario(j.v.scenarios.v[i])]]

\* serde_json::from_str::<RunStats>(..)
from_str(j) ==
    [total_featuress |-> j.v.total_featuress.v,
     total_scenarios |-> j.v.total_scenarios.v,
     skipped_scenarios |-> j.v.skipped_scenarios.v,
     passed_scenarios |-> j.v.passed_scenarios.v,
     failed_scenarios |-> j.v.failed_scenarios.v,
     features |-> [i \in DOMAIN j.v.features.v |-> de_feature(j.v.features.v[i])]]

\* Mutant of write_result_file: the Result of fs::write is unwrapped.
write_result_file_unwrap(d, stats, create_ok, write_ok) ==
    LET created == IF d.dir THEN "AlreadyExists" ELSE IF create_ok THEN "Ok" ELSE "Err"
        dir == d.dir \/ create_ok
        output == to_string(stats)
        wrote == IF dir /\ write_ok THEN "Ok" ELSE "Err"
    IN  [disk |-> [dir |-> dir,
                   file |-> IF wrote = "Ok" THEN Some(output) ELSE d.file,
                   create_dir |-> created,
                   write |-> wrote],
         panicked |-> wrote = "Err"]

\* write_result_file: create_dir and write may fail (create_ok, write_ok are
\* what the file system grants); both Results are dropped
write_result_file(d, stats, create_ok, write_ok) ==
    LET created == IF d.dir THEN "AlreadyExists" ELSE IF create_ok THEN "Ok" ELSE "Err"
        dir == d.dir \/ create_ok
        output == to_string(stats)
        wrote == IF dir /\ write_ok THEN "Ok" ELSE "Err"
    IN  [disk |-> [dir |-> dir,
                   file |-> IF wrote = "Ok" THEN Some(output) ELSE d.file,
                   create_dir |-> created,
                   write |-> wrote],
         panicked |-> FALSE]

handlerVars == <<features, poisoned, panic, holder, pc, cur, script, acquired, started, ordered>>

\* Events the handler receives in SpecReport
ReportEvents ==
    {FeatureStarting("f2"), FeatureStarting("f1"),
     ScenarioStarting("f1", "s2"), ScenarioStarting("f1", "s1"),
     StepStarting("f1", "s1", "When", "x"), StepStarting("f1", "s1", "Given", "x"),
     Event("ScenarioPassed", "f1", "s1", NoName, NoName),
     Event("ScenarioFailedPanic", "f1", "s2", NoName, NoName),
     Event("StepPassed", "f1", "s1", "Given", "x")}

InitReport ==
    /\ features = <<>>
    /\ poisoned = FALSE
    /\ panic = None
    /\ holder = NoHolder
    /\ pc = [p \in Producers |-> "idle"]
    /\ cur = [p \in Producers |-> NoEvent]
    /\ script = [p \in Producers |-> <<>>]
    /\ acquired = <<>>
    /\ started = <<>>
    /\ ordered = TRUE
    /\ result = None
    /\ report = None
    /\ stdout = <<>>
    /\ disk \in {[dir |-> d, file |-> None, create_dir |-> "-", write |-> "-"] : d \in BOOLEAN}
    /\ exitCode = None
    /\ decoded = None
    /\ mainPc = "run"

\* a handle_event call while the process is alive
Deliver(event) ==
    /\ mainPc \in {"run", "compiled", "printed", "written"}
    /\ HandleEvent(event)

\* let result = ...run().await;
\* let state = event_handler.state.lock().unwrap().clone();
\* let stats = RunStats::new(&result, &state);
Compile(res) ==
    /\ mainPc = "run"
    /\ result' = Some(res)
    /\ IF poisoned
       THEN /\ mainPc' = "panicked"
            /\ report' = report
       ELSE /\ mainPc' = "compiled"
            /\ report' = Some(RunStatsNew(res, features))
    /\ UNCHANGED <<stdout, disk, exitCode, decoded>>
    /\ UNCHANGED handlerVars

\* print_test_results(&stats);
PrintTestResults ==
    /\ mainPc = "compiled"
    /\ stdout' = print_test_results(ReportValue)
    /\ mainPc' = "printed"
    /\ UNCHANGED <<result, report, disk, exitCode, decoded>>
    /\ UNCHANGED handlerVars

\* write_result_file(filename, &stats);
WriteResultFile(create_ok, write_ok) ==
    /\ mainPc = "printed"
    /\ LET r == write_result_file(disk, ReportValue, create_ok, write_ok) IN
         /\ disk' = r.disk
         /\ mainPc' = IF r.panicked THEN "panicked" ELSE "written"
    /\ UNCHANGED <<result, report, stdout, exitCode, decoded>>
    /\ UNCHANGED handlerVars

\* let code = if result.failed() { 1 } else { 0 }; std::process::exit(code);
Exit ==
    /\ mainPc = "written"
    /\ exitCode' = Some(IF result[1].failed THEN 1 ELSE 0)
    /\ mainPc' = "exited"
    /\ UNCHANGED <<result, report, stdout, disk, decoded>>
    /\ UNCHANGED handlerVars

NextReport ==
    \/ \E event \in ReportEvents : Deliver(event)
    \/ \E res \in RunResults : Compile(res)
    \/ PrintTestResults
    \/ \E create_ok, write_ok \in BOOLEAN : WriteResultFile(create_ok, write_ok)
    \/ Exit

SpecReport == InitReport /\ [][NextReport]_vars

\* ------------------------------------------------------------------------
\* The result file read back.  RunStats and its parts are public, so a
\* Report may hold any outcome, Some(Skipped) included.
\* ------------------------------------------------------------------------

Outcomes == {None, Some(Passed), Some(Failed), Some(Skipped)}

SerdeSteps == [name : StepNames, keyword : StepKeywords, result : Outcomes]

SerdeStepLists == UNION {[1..n -> SerdeSteps] : n \in 0..MaxSteps}

SerdeScenarios == [name : ScenarioNames, steps : SerdeStepLists, result : Outcomes]

SerdeSibling == [name |-> "s1", steps |-> <<>>, result |-> Some(Skipped)]

\* Feature lists around one Scenario: alone, before and after a sibling,
\* in a Feature before and after another Feature
SerdeFeatureLists ==
    {<<>>}
    \cup {<<[name |-> "f1", scenarios |-> <<sc>>]>> : sc \in SerdeScenarios}
    \cup {<<[name |-> "f1", scenarios |-> <<sc, SerdeSibling>>],
            [name |-> "f2", scenarios |-> <<>>]>> : sc \in SerdeScenarios}
    \cup {<<[name |-> "f2", scenarios |-> <<>>],
            [name |-> "f1", scenarios |-> <<SerdeSibling, sc>>]>> : sc \in SerdeScenarios}

InitSerde ==
    /\ features = <<>>
    /\ poisoned = FALSE
    /\ panic = None
    /\ holder = NoHolder
    /\ pc = [p \in Producers |-> "idle"]
    /\ cur = [p \in Producers |-> NoEvent]
    /\ script = [p \in Producers |-> <<>>]
    /\ acquired = <<>>
    /\ started = <<>>
    /\ ordered = TRUE
    /\ \E res \in RunResults, fs \in SerdeFeatureLists :
         /\ result = Some(res)
         /\ report = Some(RunStatsNew(res, fs))
         /\ stdout = print_test_results([RunStatsNew(res, fs) EXCEPT !.features = fs])
    /\ disk = [dir |-> TRUE, file |-> None, create_dir |-> "-", write |-> "-"]
    /\ exitCode = None
    /\ decoded = None
    /\ mainPc = "printed"

\* serde_json::from_str on the content of the result file
ReadResultFile ==
    /\ mainPc = "written"
    /\ disk.file # None
    /\ decoded = None
    /\ decoded' = Some(from_str(disk.file[1]))
    /\ UNCHANGED <<result, report, stdout, disk, exitCode, mainPc>>
    /\ UNCHANGED handlerVars

NextSerde ==
    \/ \E create_ok, write_ok \in BOOLEAN : WriteResultFile(create_ok, write_ok)
    \/ ReadResultFile

SpecSerde == InitSerde /\ [][NextSerde]_vars

\* ------------------------------------------------------------------------
\* Properties
\* ------------------------------------------------------------------------

IsFeatureStarting(e) == e.kind = "FeatureStarting"

ScenarioStartsOf(log, f) ==
    SelectSeq(log, LAMBDA e : e.kind = "ScenarioStarting" /\ e.feature = f)

StepStartsOf(log, f, s) ==
    SelectSeq(log, LAMBDA e : e.kind = "StepStarting" /\ e.feature = f /\ e.scenario = s)

\* C1: when every delivered event respected the ordering contract, the
\* Features of the tree are exactly the started Features, each once and in
\* the order their Starting events were handled, and so are the Scenarios
\* of every Feature and the Steps of every Scenario.
C1_FirstSeenOrder ==
    ordered =>
        /\ [i \in DOMAIN features |-> FeatureStarting(features[i].name)]
              = SelectSeq(started, IsFeatureStarting)
        /\ \A i \in DOMAIN features :
              /\ [j \in DOMAIN features[i].scenarios |->
                     ScenarioStarting(features[i].name, features[i].scenarios[j].name)]
                    = ScenarioStartsOf(started, features[i].name)
              /\ \A j \in DOMAIN features[i].scenarios :
                    LET sc == features[i].scenarios[j] IN
                    [k \in DOMAIN sc.steps |->
                        StepStarting(features[i].name, sc.name,
                                     sc.steps[k].keyword, sc.steps[k].name)]
                      = StepStartsOf(started, features[i].name, sc.name)

\* C1 witness: a contract-respecting run of four Starting events that built
\* a Scenario with two Steps.
C1_Witness ==
    /\ ordered
    /\ Len(started) = 4
    /\ \E i \in DOMAIN features : \E j \in DOMAIN features[i].scenarios :
          Len(features[i].scenarios[j].steps) = 2

\* C2: no two Features share a name, no two Scenarios of a Feature share a
\* name, and no two Steps of a Scenario share a (keyword, name) pair.
C2_UniqueIdentities ==
    /\ \A i, j \in DOMAIN features :
          features[i].name = features[j].name => i = j
    /\ \A i \in DOMAIN features :
          LET scs == features[i].scenarios IN
          /\ \A j, k \in DOMAIN scs : scs[j].name = scs[k].name => j = k
          /\ \A j \in DOMAIN scs :
                \A k, l \in DOMAIN scs[j].steps :
                    (/\ scs[j].steps[k].keyword = scs[j].steps[l].keyword
                     /\ scs[j].steps[k].name = scs[j].steps[l].name) => k = l

ScenarioOps == {"ScenarioStarting", "ScenarioPassed", "ScenarioFailedPanic",
                "ScenarioSkipped"}
StepOps == {"StepStarting", "StepPassed", "StepFailedPanic", "StepFailedTimedOut"}

FeatureMissing(fs, e) ==
    /\ e.kind \in ScenarioOps \cup StepOps
    /\ ~\E i \in DOMAIN fs : fs[i].name = e.feature

ScenarioMissing(fs, e) ==
    /\ e.kind \in StepOps
    /\ \E i \in DOMAIN fs : fs[i].name = e.feature
    /\ ~\E i \in DOMAIN fs : \E j \in DOMAIN fs[i].scenarios :
          fs[i].name = e.feature /\ fs[i].scenarios[j].name = e.scenario

\* C3: in every reachable tree, a create or set operation whose Feature
\* (or, for a Step operation, whose Scenario) is missing panics with a
\* message that names the missing parent, and returns the tree as it was,
\* without a Feature or Scenario for the missing ancestor.
C3_MissingParentFailsFast ==
    \A e \in Events :
        LET r == dispatch(features, e) IN
        /\ FeatureMissing(features, e) =>
              /\ r.panicked
              /\ r.msg # None
              /\ r.msg[1][1] = "Feature '"
              /\ r.msg[1][2] = e.feature
              /\ r.features = features
              /\ handle_event(features, FALSE, e).poisoned
        /\ ScenarioMissing(features, e) =>
              /\ r.panicked
              /\ r.msg # None
              /\ r.msg[1][1] = "Scenario '"
              /\ r.msg[1][2] = e.scenario
              /\ r.features = features
              /\ handle_event(features, FALSE, e).poisoned

\* C3 witness: a StepStarting for a known Feature and an unknown Scenario
\* has panicked.
C3_Witness ==
    /\ panic = Some(<<"Scenario '", "s1", "' not found  while adding step">>)
    /\ poisoned
    /\ \E i \in DOMAIN features : features[i].name = "f1"

ScenarioPassed(sc) == sc.result # None /\ sc.result[1] = Passed
ScenarioFailed(sc) == sc.result # None /\ sc.result[1] = Failed

\* C4: get_result of a Feature is Passed exactly when the Feature has a
\* Scenario and every Scenario's stored outcome is Passed.
C4_Unanimity ==
    \A i \in DOMAIN features :
        (get_result(features[i]) = Some(Passed))
          <=> (/\ features[i].scenarios # <<>>
               /\ \A j \in DOMAIN features[i].scenarios :
                     ScenarioPassed(features[i].scenarios[j]))

\* C4 witness: a Feature of two Scenarios, both Passed.
C4_Witness ==
    \E i \in DOMAIN features :
        /\ Len(features[i].scenarios) = 2
        /\ \A j \in DOMAIN features[i].scenarios :
              ScenarioPassed(features[i].scenarios[j])

\* C5: a Feature with at least one Scenario whose stored outcome is Failed
\* has get_result Failed.
C5_FailureDominance ==
    \A i \in DOMAIN features :
        (\E j \in DOMAIN features[i].scenarios :
            ScenarioFailed(features[i].scenarios[j]))
          => get_result(features[i]) = Some(Failed)

\* C5 witness: a Feature whose first Scenario is Skipped or absent and whose
\* second is Failed.
C5_Witness ==
    \E i \in DOMAIN features :
        /\ Len(features[i].scenarios) >= 2
        /\ features[i].scenarios[1].result \in {None, Some(Skipped), Some(Passed)}
        /\ ScenarioFailed(features[i].scenarios[2])

\* C6: a Feature without Scenarios has no derived outcome and its feature
\* line shows Skipped.
C6_EmptyFeature ==
    \A i \in DOMAIN features :
        features[i].scenarios = <<>> =>
            /\ get_result(features[i]) = None
            /\ FeatureStatsDisplay(features[i])
                  = <<"Feature: '", features[i].name, "'; Status: '", "Skipped", "'">>

\* C6 witness: a Feature without Scenarios after a Feature with one.
C6_Witness ==
    \E i, k \in DOMAIN features :
        /\ features[i].scenarios = <<>>
        /\ features[k].scenarios # <<>>

\* C7: a Feature with a Scenario, none Failed and one Skipped or absent, has
\* get_result Skipped; every Feature with a Scenario has one of the three
\* outcomes.
C7_SkippedOtherwise ==
    \A i \in DOMAIN features :
        LET scs == features[i].scenarios IN
        scs # <<>> =>
            /\ get_result(features[i]) \in {Some(Passed), Some(Failed), Some(Skipped)}
            /\ (/\ \A j \in DOMAIN scs : ~ScenarioFailed(scs[j])
                /\ \E j \in DOMAIN scs : scs[j].result \in {None, Some(Skipped)})
               => get_result(features[i]) = Some(Skipped)

\* C7 witness: a Feature with a Passed Scenario and one without outcome.
C7_Witness ==
    \E i \in DOMAIN features : \E j, k \in DOMAIN features[i].scenarios :
        /\ ScenarioPassed(features[i].scenarios[j])
        /\ features[i].scenarios[k].result = None

AllDelivered == \A p \in Producers : pc[p] = "idle" /\ script[p] = <<>>

\* C8: once every producer has delivered its events the tree has NProducers
\* Features and NProducers * MScenarios Scenarios, and every producer's
\* Feature is there once, holding its own MScenarios Scenarios in the
\* producer's order.
C8_ProducersTree ==
    AllDelivered =>
        /\ Len(features) = NProducers
        /\ Cardinality(UNION {{<<i, j>> : j \in DOMAIN features[i].scenarios} :
                                 i \in DOMAIN features})
              = NProducers * MScenarios
        /\ \A p \in Producers :
              \E i \in DOMAIN features :
                  /\ features[i].name = ProducerFeature(p)
                  /\ \A k \in DOMAIN features : features[k].name = features[i].name => k = i
                  /\ [j \in DOMAIN features[i].scenarios |-> features[i].scenarios[j].name]
                        = [j \in 1 .. MScenarios |-> ProducerScenario(p, j)]

\* C8 witness: all events delivered, from an interleaving in which a later
\* producer's Feature came first and a Scenario was pushed between the
\* pushes of another producer.
C8_Witness ==
    /\ AllDelivered
    /\ Len(features) = NProducers
    /\ features[1].name = ProducerFeature(2)
    /\ \E i \in DOMAIN acquired :
          /\ i + 2 <= Len(acquired)
          /\ acquired[i].feature = acquired[i + 2].feature
          /\ acquired[i].feature # acquired[i + 1].feature

RECURSIVE Replay(_)
\* the calls of a log applied one after another, from a new handler
Replay(log) ==
    IF log = <<>>
    THEN [features |-> <<>>, poisoned |-> FALSE, msg |-> None]
    ELSE LET prev == Replay(SubSeq(log, 1, Len(log) - 1))
         IN  handle_event(prev.features, prev.poisoned, log[Len(log)])

InCriticalSection(p) == pc[p] \in {"match", "drop"}

\* C9: at most one handle_event call is inside lock .. drop, it is the
\* holder of the Mutex, and the tree is the one the dispatches made so far
\* produce when applied one after another in the order of their lock
\* acquisitions.
C9_MutualExclusion ==
    /\ \A p, q \in Producers : (InCriticalSection(p) /\ InCriticalSection(q)) => p = q
    /\ \A p \in Producers : InCriticalSection(p) <=> holder = p
    /\ LET dispatched == IF \E p \in Producers : pc[p] = "match"
                         THEN SubSeq(acquired, 1, Len(acquired) - 1)
                         ELSE acquired
       IN  /\ features = Replay(dispatched).features
           /\ poisoned = Replay(dispatched).poisoned

\* C9 witness: a producer is blocked in lock() while another, which
\* acquired the Mutex after a first dispatch, is inside its match.
C9_Witness ==
    \E p, q \in Producers :
        /\ p # q
        /\ pc[p] = "lock"
        /\ pc[q] = "match"
        /\ holder = q
        /\ Len(acquired) >= 2
        /\ features # <<>>

\* C10: under fair scheduling every handle_event call of the producers
\* acquires the Mutex, runs its match and drops the guard; a producer that
\* is not inside a call never holds the Mutex, and in the end the Mutex is
\* free with every event delivered.
C10_LockProgress ==
    /\ [](\A p \in Producers : pc[p] \in {"idle", "lock"} => holder # p)
    /\ \A p \in Producers :
          /\ (pc[p] = "lock") ~> (pc[p] = "match" /\ holder = p)
          /\ (pc[p] = "match") ~> (pc[p] = "drop")
          /\ (pc[p] = "drop") ~> (pc[p] = "idle" /\ holder # p)
    /\ <>[](AllDelivered /\ holder = NoHolder)

\* C10 witness: every producer but the holder is blocked in lock().
C10_Witness ==
    /\ holder # NoHolder
    /\ \A p \in Producers : p # holder => pc[p] = "lock"
    /\ ~poisoned

\* Shapes outside the tracked set, and the tracked terminal shapes
UntrackedKinds == {"FeatureFinished", "ScenarioFailedTimedOut", "StepSkipped"}
ScenarioOutcomeKinds == {"ScenarioPassed", "ScenarioFailedPanic", "ScenarioSkipped"}
StepOutcomeKinds == {"StepPassed", "StepFailedPanic", "StepFailedTimedOut"}

\* C11 as stated: in every reachable state a handle_event call with an
\* untracked event raises no error and leaves the tree unchanged.
C11_UntrackedNeverFails ==
    \A e \in Events :
        e.kind \in UntrackedKinds =>
            LET r == handle_event(features, poisoned, e) IN
            /\ r.msg = None
            /\ r.features = features

\* C11 amended: a handle_event call with an untracked event leaves the tree
\* unchanged, and on a Mutex that is not poisoned it raises no error and
\* does not poison it, whether or not the entities the event names exist.
C11_UntrackedNoOp ==
    \A e \in Events :
        e.kind \in UntrackedKinds =>
            LET r == handle_event(features, poisoned, e) IN
            /\ r.features = features
            /\ ~poisoned => (r.msg = None /\ ~r.poisoned)

\* C11 witness: a live handler whose tree has a Feature without the Scenario
\* that untracked scenario and step events name.
C11_Witness ==
    /\ ~poisoned
    /\ panic = None
    /\ Len(features) = 1
    /\ features[1].name = "f1"
    /\ \A j \in DOMAIN features[1].scenarios : features[1].scenarios[j].name # "s2"
    /\ features[1].scenarios # <<>>

ScenarioPositions(fs) ==
    UNION {{<<i, j>> : j \in DOMAIN fs[i].scenarios} : i \in DOMAIN fs}

StepPositions(fs) ==
    UNION {{<<q[1], q[2], k>> : k \in DOMAIN fs[q[1]].scenarios[q[2]].steps} :
             q \in ScenarioPositions(fs)}

ScenarioAt(fs, q) == fs[q[1]].scenarios[q[2]]
StepAt(fs, q) == fs[q[1]].scenarios[q[2]].steps[q[3]]

NamesScenario(fs, e, q) ==
    fs[q[1]].name = e.feature /\ ScenarioAt(fs, q).name = e.scenario

NamesStep(fs, e, q) ==
    /\ NamesScenario(fs, e, q)
    /\ StepAt(fs, q).keyword = e.keyword
    /\ StepAt(fs, q).name = e.step

\* C14: in every reachable tree and for every event, a Scenario or Step the
\* dispatch creates has no stored outcome, the stored outcome of an
\* existing Scenario changes only on a tracked scenario outcome event that
\* names it and that of an existing Step only on a tracked step outcome
\* event that names it; an absent outcome is rendered as Skipped and read as
\* Skipped by the roll-up.
C14_AbsentUntilSet ==
    /\ \A e \in Events :
          LET g == dispatch(features, e).features IN
          /\ \A q \in ScenarioPositions(g) :
                IF q \in ScenarioPositions(features)
                THEN ScenarioAt(g, q).result # ScenarioAt(features, q).result
                        => (e.kind \in ScenarioOutcomeKinds /\ NamesScenario(g, e, q))
                ELSE ScenarioAt(g, q).result = None
          /\ \A q \in StepPositions(g) :
                IF q \in StepPositions(features)
                THEN StepAt(g, q).result # StepAt(features, q).result
                        => (e.kind \in StepOutcomeKinds /\ NamesStep(g, e, q))
                ELSE StepAt(g, q).result = None
    /\ \A q \in ScenarioPositions(features) :
          ScenarioAt(features, q).result = None =>
              ScenarioStatsDisplay(ScenarioAt(features, q))
                 = <<"Scenario: '", ScenarioAt(features, q).name, "'; Status: '", "Skipped", "'">>
    /\ \A q \in StepPositions(features) :
          StepAt(features, q).result = None =>
              StepStatsDisplay(StepAt(features, q))
                 = <<"Step: '", StepAt(features, q).keyword, " ", StepAt(features, q).name,
                     "'; Status: '", "Skipped", "'">>
    /\ \A i \in DOMAIN features :
          (/\ features[i].scenarios # <<>>
           /\ \A j \in DOMAIN features[i].scenarios : features[i].scenarios[j].result = None)
             => get_result(features[i]) = Some(Skipped)

\* C14 witness: a Scenario without stored outcome that holds a Step with a
\* stored outcome and a Step without.
C14_Witness ==
    \E q \in ScenarioPositions(features) :
        /\ ScenarioAt(features, q).result = None
        /\ \E k, l \in DOMAIN ScenarioAt(features, q).steps :
              /\ ScenarioAt(features, q).steps[k].result # None
              /\ ScenarioAt(features, q).steps[l].result = None

IsPrefix(a, b, Same(_, _)) ==
    /\ Len(a) <= Len(b)
    /\ \A i \in DOMAIN a : Same(a[i], b[i])

SameStep(x, y) == x.name = y.name /\ x.keyword = y.keyword
SameScenario(x, y) == x.name = y.name /\ IsPrefix(x.steps, y.steps, SameStep)
SameFeature(x, y) == x.name = y.name /\ IsPrefix(x.scenarios, y.scenarios, SameScenario)

\* C15: every step of an execution keeps the Features, the Scenarios of
\* every Feature and the Steps of every Scenario as a prefix, with their
\* names, of the lists after the step.
C15_MonotonicGrowth ==
    [][IsPrefix(features, features', SameFeature)]_vars

\* C15 witness: a tree of two Features in which a Scenario has a Step and a
\* stored outcome.
C15_Witness ==
    /\ Len(features) = 2
    /\ \E q \in StepPositions(features) :
          /\ q[1] = 1
          /\ ScenarioAt(features, q).result # None

ExpectedOutcome(kind) ==
    CASE kind \in {"StepPassed", "ScenarioPassed"} -> Passed
      [] kind \in {"StepFailedPanic", "StepFailedTimedOut", "ScenarioFailedPanic"} -> Failed
      [] kind = "ScenarioSkipped" -> Skipped

\* C19: in every reachable tree, two tracked terminal events for one
\* existing Scenario (or one existing Step), handled one after the other,
\* both succeed, and the stored outcome they leave is that of the second,
\* whatever was stored before.
C19_LastWriteWins ==
    /\ \A t \in ScenarioPositions(features) : \A k1, k2 \in ScenarioOutcomeKinds :
          LET e1 == Event(k1, features[t[1]].name, ScenarioAt(features, t).name, NoName, NoName)
              e2 == Event(k2, e1.feature, e1.scenario, NoName, NoName)
              r1 == dispatch(features, e1)
              r2 == dispatch(r1.features, e2)
          IN  /\ ~r1.panicked
              /\ ~r2.panicked
              /\ \E q \in ScenarioPositions(features) :
                    /\ NamesScenario(features, e1, q)
                    /\ ScenarioAt(r1.features, q).result = Some(ExpectedOutcome(k1))
                    /\ ScenarioAt(r2.features, q).result = Some(ExpectedOutcome(k2))
    /\ \A t \in StepPositions(features) : \A k1, k2 \in StepOutcomeKinds :
          LET e1 == Event(k1, features[t[1]].name, ScenarioAt(features, t).name,
                          StepAt(features, t).keyword, StepAt(features, t).name)
              e2 == Event(k2, e1.feature, e1.scenario, e1.keyword, e1.step)
              r1 == dispatch(features, e1)
              r2 == dispatch(r1.features, e2)
          IN  /\ ~r1.panicked
              /\ ~r2.panicked
              /\ \E q \in StepPositions(features) :
                    /\ NamesStep(features, e1, q)
                    /\ StepAt(r1.features, q).result = Some(ExpectedOutcome(k1))
                    /\ StepAt(r2.features, q).result = Some(ExpectedOutcome(k2))

\* C19 witness: a Scenario and one of its Steps both have a stored outcome,
\* so that every terminal event for them is a re-set.
C19_Witness ==
    \E q \in StepPositions(features) :
        /\ ScenarioAt(features, q).result = Some(Failed)
        /\ StepAt(features, q).result = Some(Passed)
        /\ ~poisoned

\* C20: in every reachable tree, a step Passed event stores Passed and a
\* step Failed-by-panic or Failed-by-timeout event stores Failed on a Step
\* it names; a scenario Passed, Failed-by-panic or Skipped event stores
\* Passed, Failed or Skipped on a Scenario it names; a Starting event
\* changes no stored outcome and creates its entity without one.
C20_DispatchMapping ==
    \A e \in Events :
        LET g == dispatch(features, e).features IN
        /\ (e.kind \in StepOutcomeKinds
              /\ \E q \in StepPositions(features) : NamesStep(features, e, q))
           => \E q \in StepPositions(features) :
                 /\ NamesStep(features, e, q)
                 /\ StepAt(g, q).result =
                       Some(CASE e.kind = "StepPassed" -> Passed
                              [] e.kind = "StepFailedPanic" -> Failed
                              [] e.kind = "StepFailedTimedOut" -> Failed)
        /\ (e.kind \in ScenarioOutcomeKinds
              /\ \E q \in ScenarioPositions(features) : NamesScenario(features, e, q))
           => \E q \in ScenarioPositions(features) :
                 /\ NamesScenario(features, e, q)
                 /\ ScenarioAt(g, q).result =
                       Some(CASE e.kind = "ScenarioPassed" -> Passed
                              [] e.kind = "ScenarioFailedPanic" -> Failed
                              [] e.kind = "ScenarioSkipped" -> Skipped)
        /\ e.kind \in StartingKinds
           => /\ \A q \in ScenarioPositions(features) :
                    ScenarioAt(g, q).result = ScenarioAt(features, q).result
              /\ \A q \in StepPositions(features) :
                    StepAt(g, q).result = StepAt(features, q).result
              /\ \A q \in ScenarioPositions(g) \ ScenarioPositions(features) :
                    ScenarioAt(g, q).result = None
              /\ \A q \in StepPositions(g) \ StepPositions(features) :
                    StepAt(g, q).result = None

\* C20 witness: a Step with Failed stored next to a Step with Passed, in a
\* Scenario with Skipped stored.
C20_Witness ==
    \E q \in ScenarioPositions(features) :
        /\ ScenarioAt(features, q).result = Some(Skipped)
        /\ \E k, l \in DOMAIN ScenarioAt(features, q).steps :
              /\ ScenarioAt(features, q).steps[k].result = Some(Failed)
              /\ ScenarioAt(features, q).steps[l].result = Some(Passed)

\* ------------------------------------------------------------------------
\* The Report
\* ------------------------------------------------------------------------

\* C12: once RunStats::new has produced the Report, no later step (a
\* handle_event call that adds a Feature, Scenario or Step or writes an
\* outcome, or a step of main) changes the Feature list a reader of the
\* Report sees, nested Scenarios, Steps and outcomes included.
C12_ReportDecoupled ==
    [][report # None => (report' # None /\ ReportFeatures' = ReportFeatures)]_vars

\* the live tree has moved on (entities added and an outcome written) since
\* the Report was compiled
C12_Witness ==
    /\ report # None
    /\ Len(features) > Len(ReportFeatures)
    /\ ReportFeatures # <<>>
    /\ \E q \in ScenarioPositions(features) :
         /\ ScenarioAt(features, q).result # None
         /\ q \in ScenarioPositions(ReportFeatures)
         /\ ScenarioAt(ReportFeatures, q).result = None

\* C13: the five counters of the Report are the counters of the engine's
\* RunResult, field for field, whatever the tree holds.
C13_CountersVerbatim ==
    report # None =>
        /\ report[1].total_featuress = result[1].features.total
        /\ report[1].total_scenarios = result[1].scenarios.total
        /\ report[1].skipped_scenarios = result[1].scenarios.skipped
        /\ report[1].passed_scenarios = result[1].scenarios.passed
        /\ report[1].failed_scenarios = result[1].scenarios.failed

\* a Report whose counters all disagree with the tree it was compiled from
C13_Witness ==
    /\ report # None
    /\ LET fs == report[1].features.items
           scs == {q \in ScenarioPositions(fs) : TRUE}
       IN  /\ report[1].total_featuress # Len(fs)
           /\ report[1].total_scenarios # Cardinality(scs)
           /\ report[1].passed_scenarios
                # Cardinality({q \in scs : ScenarioAt(fs, q).result = Some(Passed)})
           /\ report[1].failed_scenarios
                # Cardinality({q \in scs : ScenarioAt(fs, q).result = Some(Failed)})
           /\ report[1].skipped_scenarios
                # Cardinality({q \in scs : ScenarioAt(fs, q).result = None})

\* lines of the per-feature block that show an entity
IsEntityLine(line) == line[1] \in {"Feature: '", "\t", "\t\t"}

RECURSIVE PreOrder(_)
\* the entities of a Feature list, parents before children, siblings in
\* insertion order, each as the line that shows it
PreOrder(fs) ==
    IF fs = <<>> THEN <<>>
    ELSE LET f == Head(fs)
             OfScenario(j) ==
                 << <<"\t">> \o ScenarioStatsDisplay(f.scenarios[j]) >>
                 \o [k \in 1..Len(f.scenarios[j].steps) |->
                       <<"\t\t">> \o StepStatsDisplay(f.scenarios[j].steps[k])]
         IN  << FeatureStatsDisplay(f) >>
             \o Concat([j \in 1..Len(f.scenarios) |-> OfScenario(j)])
             \o PreOrder(Tail(fs))

\* C16: print_test_results shows the entities of the Report as a pre-order
\* walk in insertion order, one line each, and changes no entity of the
\* Report.
C16_InsertionOrderRendering ==
    [][PrintTestResults =>
         /\ SelectSeq(stdout', IsEntityLine) = PreOrder(ReportFeatures)
         /\ report' = report
         /\ ReportFeatures' = ReportFeatures]_vars

\* printed: a Report whose Features and Scenarios were inserted against the
\* order of their names, the first Scenario Failed and the second without
\* an outcome
C16_Witness ==
    /\ mainPc = "printed"
    /\ Len(ReportFeatures) = 2
    /\ ReportFeatures[1].name = "f2"
    /\ Len(ReportFeatures[2].scenarios) = 2
    /\ ReportFeatures[2].scenarios[1].name = "s2"
    /\ ReportFeatures[2].scenarios[1].result = Some(Failed)
    /\ ReportFeatures[2].scenarios[2].result = None
    /\ Len(SelectSeq(stdout, IsEntityLine)) = 4

\* C17: write_result_file returns normally whether ./out existed, could be
\* created or not, and whether the write succeeded or failed; main then
\* exits with 1 if the engine's result failed and with 0 otherwise.
C17_BestEffortPersistence ==
    /\ mainPc = "panicked" => disk.write = "-"
    /\ mainPc \in {"written", "exited"} =>
         /\ disk.create_dir \in {"Ok", "Err", "AlreadyExists"}
         /\ disk.write \in {"Ok", "Err"}
    /\ mainPc = "exited" => exitCode = Some(IF result[1].failed THEN 1 ELSE 0)
    /\ mainPc # "exited" => exitCode = None

\* ./out could not be created, the write failed, no file exists and the
\* process exited with success
C17_Witness ==
    /\ mainPc = "exited"
    /\ disk.create_dir = "Err"
    /\ disk.write = "Err"
    /\ disk.file = None
    /\ exitCode = Some(0)

\* C18: the RunStats read back from the document that serde_json wrote for a
\* Report equals the Report field for field: the counters, the Features,
\* Scenarios and Steps in their order, and every outcome, None and
\* Some(Skipped) kept apart.
C18_RoundTrip ==
    /\ disk.file # None => from_str(disk.file[1]) = ReportValue
    /\ decoded # None => decoded[1] = ReportValue

\* read back: two Features, the second with two Scenarios, one of them with
\* a Step without outcome before a Skipped Step
C18_Witness ==
    /\ decoded # None
    /\ Len(decoded[1].features) = 2
    /\ decoded[1].features[1].name = "f2"
    /\ decoded[1].total_featuress # 2
    /\ LET sc == decoded[1].features[2].scenarios[2] IN
         /\ sc.result = Some(Failed)
         /\ Len(sc.steps) = 2
         /\ sc.steps[1].keyword = "When"
         /\ sc.steps[1].result = None
         /\ sc.steps[2].keyword = "Given"
         /\ sc.steps[2].result = Some(Skipped)

\* ------------------------------------------------------------------------
\* Unknown targets, duplicates, poisoning and the frame of a dispatch
\* ------------------------------------------------------------------------

\* the Feature exists and no Feature of that name has the Scenario
ScenarioUnknown(fs, e) ==
    /\ e.kind \in ScenarioOutcomeKinds
    /\ \E i \in DOMAIN fs : fs[i].name = e.feature
    /\ ~\E q \in ScenarioPositions(fs) : NamesScenario(fs, e, q)

\* the Scenario exists and no Scenario of that identity has the Step
StepUnknown(fs, e) ==
    /\ e.kind \in StepOutcomeKinds
    /\ \E q \in ScenarioPositions(fs) : NamesScenario(fs, e, q)
    /\ ~\E q \in StepPositions(fs) : NamesStep(fs, e, q)

\* C21: in every reachable tree, a scenario outcome event for an unknown
\* Scenario of a known Feature and a step outcome event for an unknown Step
\* of a known Scenario panic with a "not found" message, poison the Mutex
\* and return the tree as it was, the target not created.
C21_UnknownTargetFailsFast ==
    \A e \in Events :
        LET r == dispatch(features, e) IN
        /\ ScenarioUnknown(features, e) =>
              /\ r.panicked
              /\ r.msg # None
              /\ r.msg[1][1] = "Scenario '"
              /\ r.msg[1][2] = e.scenario
              /\ r.features = features
              /\ handle_event(features, FALSE, e).poisoned
              /\ handle_event(features, FALSE, e).features = features
        /\ StepUnknown(features, e) =>
              /\ r.panicked
              /\ r.msg # None
              /\ r.msg[1][1] \in {"Step '", "Scenario '"}
              /\ (get_scenario(features[get_feature(features, e.feature)], e.scenario) # 0
                    => r.msg[1] = <<"Step '", e.keyword, " ", e.step,
                                    "' not found while setting result to step">>)
              /\ r.features = features
              /\ handle_event(features, FALSE, e).poisoned
              /\ handle_event(features, FALSE, e).features = features

\* C21 witness: a step outcome event for a Step that was never started, in
\* a Scenario that has another Step, has panicked.
C21_Witness ==
    /\ panic = Some(<<"Step '", "When", " ", "x",
                      "' not found while setting result to step">>)
    /\ poisoned
    /\ \E q \in StepPositions(features) :
          /\ StepAt(features, q).keyword = "Given"
          /\ \A t \in StepPositions(features) : StepAt(features, t).keyword # "When"

\* a Feature of the same name was inserted before position i
LaterFeature(fs, i) == \E h \in 1..(i - 1) : fs[h].name = fs[i].name

\* a Scenario of the same name was inserted before q in the same Feature
LaterScenario(fs, q) ==
    \E h \in 1..(q[2] - 1) : fs[q[1]].scenarios[h].name = ScenarioAt(fs, q).name

\* a Step of the same (keyword, name) was inserted before q in the same Scenario
LaterStep(fs, q) ==
    \E h \in 1..(q[3] - 1) :
        /\ ScenarioAt(fs, q).steps[h].keyword = StepAt(fs, q).keyword
        /\ ScenarioAt(fs, q).steps[h].name = StepAt(fs, q).name

\* C22: in every reachable tree, a Feature, Scenario or Step inserted after
\* another of the same identity has no children and no stored outcome, and
\* no event makes a dispatch change it: creates and sets that name the
\* identity act on the earliest-inserted entry.
C22_FirstMatch ==
    /\ \A i \in DOMAIN features :
          LaterFeature(features, i) => features[i].scenarios = <<>>
    /\ \A q \in ScenarioPositions(features) :
          LaterScenario(features, q) =>
              /\ ScenarioAt(features, q).steps = <<>>
              /\ ScenarioAt(features, q).result = None
    /\ \A q \in StepPositions(features) :
          LaterStep(features, q) => StepAt(features, q).result = None
    /\ \A e \in Events :
          LET g == dispatch(features, e).features IN
          /\ \A i \in DOMAIN features :
                LaterFeature(features, i) => g[i] = features[i]
          /\ \A q \in ScenarioPositions(features) :
                LaterScenario(features, q) => ScenarioAt(g, q) = ScenarioAt(features, q)
          /\ \A q \in StepPositions(features) :
                LaterStep(features, q) => StepAt(g, q) = StepAt(features, q)
          /\ (e.kind \in ScenarioOutcomeKinds /\ g # features) =>
                \E q \in ScenarioPositions(features) :
                    /\ NamesScenario(features, e, q)
                    /\ ~LaterFeature(features, q[1])
                    /\ ~LaterScenario(features, q)
                    /\ ScenarioAt(g, q) # ScenarioAt(features, q)
          /\ (e.kind \in StepOutcomeKinds /\ g # features) =>
                \E q \in StepPositions(features) :
                    /\ NamesStep(features, e, q)
                    /\ ~LaterFeature(features, q[1])
                    /\ ~LaterScenario(features, q)
                    /\ ~LaterStep(features, q)
                    /\ StepAt(g, q) # StepAt(features, q)

\* C22 witness: a Feature started twice and, in its first entry, a Scenario
\* started twice; the first entries took the later Scenario and the outcome.
C22_Witness ==
    /\ Len(features) = 2
    /\ features[1].name = features[2].name
    /\ Len(features[1].scenarios) = 2
    /\ features[1].scenarios[1].name = features[1].scenarios[2].name
    /\ features[1].scenarios[1].result = Some(Passed)
    /\ ~poisoned

\* C23: a handle_event call that panics leaves the Mutex poisoned; from then
\* on the Mutex stays poisoned, the tree never changes, a handle_event call
\* with any event, untracked ones included, panics on the PoisonError, and
\* main, if it has not compiled the Report yet, panics on its own lock of
\* the state and compiles none.
C23_PoisonAbsorbing ==
    /\ [](poisoned =>
            \A e \in Events :
                handle_event(features, poisoned, e)
                    = [features |-> features, poisoned |-> TRUE, msg |-> Some(PoisonError)])
    /\ [][/\ panic' # None => poisoned'
          /\ poisoned =>
               /\ poisoned'
               /\ features' = features
               /\ panic' # None
               /\ panic' # panic => panic' = Some(PoisonError)
               /\ mainPc = "run" =>
                     /\ report' = None
                     /\ mainPc' \in {"run", "panicked"}]_vars

\* C23 witness: after a protocol violation on a tree with a Feature, a later
\* call died on the PoisonError and main panicked without a Report.
C23_Witness ==
    /\ poisoned
    /\ panic = Some(PoisonError)
    /\ features # <<>>
    /\ mainPc = "panicked"
    /\ result # None
    /\ report = None

\* the lists a and b differ by one element appended to a
AppendsOne(a, b, x) == Len(b) = Len(a) + 1 /\ SubSeq(b, 1, Len(a)) = a /\ b[Len(b)] = x

\* the same Features with the same names and as many Scenarios each
SameFeatureShape(fs, g) ==
    /\ Len(g) = Len(fs)
    /\ \A i \in DOMAIN fs :
          g[i].name = fs[i].name /\ Len(g[i].scenarios) = Len(fs[i].scenarios)

\* every Scenario but the one at q is the same
OtherScenariosSame(fs, g, q) ==
    \A t \in ScenarioPositions(fs) \ {q} : ScenarioAt(g, t) = ScenarioAt(fs, t)

\* C24: in every reachable tree, a dispatch that succeeds changes its
\* target only.  A create-feature appends one empty Feature; a
\* create-scenario appends one empty Scenario to one Feature of that name;
\* a create-step appends one Step without outcome to one Scenario of that
\* identity; a scenario outcome event writes the result of one such Scenario
\* and a step outcome event the result of one such Step; everything else,
\* and on a step event every Scenario's stored outcome and every Feature's
\* roll-up, is as before.  A Scenario without stored outcome that has a
\* Failed Step is rendered Skipped and its Feature, unless another of its
\* Scenarios is Failed, rolls up to Skipped.
C24_Frame ==
    /\ \A e \in Events :
          LET r == dispatch(features, e)
              g == r.features
          IN  ~r.panicked =>
              /\ e.kind = "FeatureStarting" =>
                    AppendsOne(features, g, [name |-> e.feature, scenarios |-> <<>>])
              /\ e.kind = "ScenarioStarting" =>
                    \E i \in DOMAIN features :
                        /\ features[i].name = e.feature
                        /\ Len(g) = Len(features)
                        /\ \A h \in DOMAIN features \ {i} : g[h] = features[h]
                        /\ g[i].name = features[i].name
                        /\ AppendsOne(features[i].scenarios, g[i].scenarios,
                                      [name |-> e.scenario, steps |-> <<>>, result |-> None])
              /\ e.kind = "StepStarting" =>
                    \E q \in ScenarioPositions(features) :
                        /\ NamesScenario(features, e, q)
                        /\ SameFeatureShape(features, g)
                        /\ OtherScenariosSame(features, g, q)
                        /\ ScenarioAt(g, q).name = ScenarioAt(features, q).name
                        /\ ScenarioAt(g, q).result = ScenarioAt(features, q).result
                        /\ AppendsOne(ScenarioAt(features, q).steps, ScenarioAt(g, q).steps,
                                      [name |-> e.step, keyword |-> e.keyword, result |-> None])
              /\ e.kind \in ScenarioOutcomeKinds =>
                    \E q \in ScenarioPositions(features) :
                        /\ NamesScenario(features, e, q)
                        /\ SameFeatureShape(features, g)
                        /\ OtherScenariosSame(features, g, q)
                        /\ ScenarioAt(g, q).name = ScenarioAt(features, q).name
                        /\ ScenarioAt(g, q).steps = ScenarioAt(features, q).steps
              /\ e.kind \in StepOutcomeKinds =>
                    \E q \in StepPositions(features) :
                        /\ NamesStep(features, e, q)
                        /\ SameFeatureShape(features, g)
                        /\ OtherScenariosSame(features, g, <<q[1], q[2]>>)
                        /\ ScenarioAt(g, q).name = ScenarioAt(features, q).name
                        /\ ScenarioAt(g, q).result = ScenarioAt(features, q).result
                        /\ Len(ScenarioAt(g, q).steps) = Len(ScenarioAt(features, q).steps)
                        /\ \A k \in DOMAIN ScenarioAt(features, q).steps :
                              /\ k # q[3] => ScenarioAt(g, q).steps[k]
                                               = ScenarioAt(features, q).steps[k]
                              /\ ScenarioAt(g, q).steps[k].name
                                    = ScenarioAt(features, q).steps[k].name
                              /\ ScenarioAt(g, q).steps[k].keyword
                                    = ScenarioAt(features, q).steps[k].keyword
                        /\ \A i \in DOMAIN features : get_result(g[i]) = get_result(features[i])
              /\ e.kind \in UntrackedKinds => g = features
    /\ \A q \in StepPositions(features) :
          (StepAt(features, q).result = Some(Failed) /\ ScenarioAt(features, q).result = None)
          => /\ ScenarioStatsDisplay(ScenarioAt(features, q))[4] = StatResultDisplay(Skipped)
             /\ get_result(features[q[1]]) # Some(Passed)
             /\ (\A j \in DOMAIN features[q[1]].scenarios :
                    features[q[1]].scenarios[j].result # Some(Failed))
                => get_result(features[q[1]]) = Some(Skipped)

\* C24 witness: a Scenario without stored outcome has a Failed Step, next to
\* another Scenario and another Feature that dispatches must leave alone.
C24_Witness ==
    /\ ~poisoned
    /\ Len(features) = 2
    /\ \E q \in StepPositions(features) :
          /\ StepAt(features, q).result = Some(Failed)
          /\ ScenarioAt(features, q).result = None
          /\ get_result(features[q[1]]) = Some(Skipped)

====
